---- MODULE Spec2Model ----
(***************************************************************************)
(* A model of the MAS-notice RAG system: the segmenter                     *)
(* (src/src/ingestion/parser.py, parse_mas_notice), the enrichment         *)
(* (src/src/ingestion/enrichment.py, enrich_and_embed), the index writer   *)
(* (src/src/ingestion/vector_storage.py, store_vectors_chroma) and the     *)
(* query-time retriever (src/src/retrieval/retriever.py, class Retriever). *)
(*                                                                         *)
(* Text is a sequence of one-character strings, so that strip(), the       *)
(* whitespace normalisation re.sub(r'\s+', ' ', t).strip() and the two     *)
(* marker regular expressions are computed, not assumed.                   *)
(***************************************************************************)
EXTENDS Integers, Sequences, FiniteSets, TLC

VARIABLES
    \* ---- parse_mas_notice ----
    pdf_path,              \* the argument: the path of the PDF file
    doc_metadata,          \* the "metadata" of the structured data, taken from the file name
    lines,                 \* full_text.split('\n'): the raw lines
    line_idx,              \* position of the for-loop over lines
    nodes,                 \* the list of node dicts
    node_counter,          \* next node number
    last_top_level_node,   \* reference (position in nodes) of the last paragraph node, 0 = None
    ppc,                   \* "off" | "start" | "lines" | "done"
    \* ---- Retriever ----
    collection,            \* self.collection: id -> [metadata, text]
    top_n_rerank,          \* full_retrieval's argument
    search_results,        \* the hits: a sequence of [id, metadata, text]
    documents,             \* the candidates handed to _rerank_with_gemini
    doc_idx,               \* _rerank_with_gemini: the documents the loop has passed
    ranked_docs,           \* _rerank_with_gemini: the list of [doc, score]
    reranked_docs,         \* the list _rerank_with_gemini returns
    context_str,           \* synthesize_answer: the context blocks of the prompt
    expanded_docs,         \* _expand_context: the dict, as a sequence of [id, metadata, text]
    calls,                 \* the requests issued to the index and to the model, in order
    result,                \* what the call returned
    rpc,                   \* "off" | "idle" | "rerank" | "synthesize" | "done" | "error" | "expanded"
    \* ---- enrich_and_embed ----
    api_key,               \* os.environ.get("GOOGLE_API_KEY") is set
    data,                  \* the structured data loaded: [metadata, content]
    node_idx,              \* position of the for-loop over data['content']
    enriched_nodes,        \* the list of enriched records
    requests,              \* the requests issued to the model, in order
    enriched_file,         \* the file at output_path: [written, nodes]
    epc,                   \* "off" | "start" | "loop" | "done" | "no_key"
    \* ---- store_vectors_chroma ----
    upserts,               \* the calls of collection.upsert, in order
    stores,                \* the calls of store_vectors_chroma that returned
    spc                    \* "off" | "idle" | "error"

parserVars == <<pdf_path, doc_metadata, lines, line_idx, nodes, node_counter, last_top_level_node,
                ppc>>

retrieverVars == <<collection, top_n_rerank, search_results, documents, doc_idx, ranked_docs,
                   reranked_docs, context_str, expanded_docs, calls, result, rpc>>

enrichVars == <<api_key, data, node_idx, enriched_nodes, requests, enriched_file, epc>>

storeVars == <<upserts, stores, spc>>

vars == <<parserVars, retrieverVars, enrichVars, storeVars>>

(***************************************************************************)
(* Bounds of the model.                                                    *)
(***************************************************************************)
MaxLines == 3
\* the largest number of hits a search returns (n_results)
MaxHits == 3
\* the largest top_n_rerank a query is run with
MaxTopN == 3

(***************************************************************************)
(* Python values.                                                          *)
(***************************************************************************)
\* Python's None object (distinct from the string 'None').
None == "<None>"

(***************************************************************************)
(* Characters and the string functions the parser uses.                    *)
(***************************************************************************)
Digits == {"0", "1", "2", "3", "4", "5", "6", "7", "8", "9"}
UpperLetters == {"A", "B", "C", "D", "E", "F", "G", "H", "I", "J", "K", "L", "M",
                 "N", "O", "P", "Q", "R", "S", "T", "U", "V", "W", "X", "Y", "Z"}
LowerLetters == {"a", "b", "c", "d", "e", "f", "g", "h", "i", "j", "k", "l", "m",
                 "n", "o", "p", "q", "r", "s", "t", "u", "v", "w", "x", "y", "z"}
\* the characters \s matches and strip() removes, among those of the model
Whitespace == {" ", "\t", "\n"}

IsSpace(c) == c \in Whitespace

RECURSIVE lstrip(_)
lstrip(s) ==
    IF s = <<>> THEN <<>>
    ELSE IF IsSpace(Head(s)) THEN lstrip(Tail(s)) ELSE s

RECURSIVE rstrip(_)
rstrip(s) ==
    IF s = <<>> THEN <<>>
    ELSE IF IsSpace(s[Len(s)]) THEN rstrip(SubSeq(s, 1, Len(s) - 1)) ELSE s

\* str.strip()
strip(s) == rstrip(lstrip(s))

\* re.sub(r'\s+', ' ', s): every maximal run of whitespace becomes one space
RECURSIVE sub_ws(_)
sub_ws(s) ==
    IF s = <<>> THEN <<>>
    ELSE IF IsSpace(Head(s)) THEN <<" ">> \o sub_ws(lstrip(s))
    ELSE <<Head(s)>> \o sub_ws(Tail(s))

\* re.sub(r'\s+', ' ', s).strip()
normalize(s) == strip(sub_ws(s))

\* the number of leading characters of s that are in the class cls
RECURSIVE span(_, _)
span(s, cls) ==
    IF s = <<>> THEN 0
    ELSE IF Head(s) \in cls THEN 1 + span(Tail(s), cls) ELSE 0

\* para_num_pattern.match(line): ^(\d+[A-Z]?)\.?\s+.*
para_num_pattern(line) ==
    LET d == span(line, Digits)
        a == IF d < Len(line) /\ line[d + 1] \in UpperLetters THEN d + 1 ELSE d
        p == IF a < Len(line) /\ line[a + 1] = "." THEN a + 1 ELSE a
    IN  /\ d >= 1
        /\ p < Len(line)
        /\ IsSpace(line[p + 1])

\* para_alpha_pattern.match(line): ^\(([a-z])\)\s+.*
para_alpha_pattern(line) ==
    /\ Len(line) >= 4
    /\ line[1] = "("
    /\ line[2] \in LowerLetters
    /\ line[3] = ")"
    /\ IsSpace(line[4])

\* "\n".join(ls): the full_text whose split('\n') is ls
RECURSIVE join_lines(_)
join_lines(ls) ==
    IF ls = <<>> THEN <<>>
    ELSE IF Len(ls) = 1 THEN ls[1]
    ELSE ls[1] \o <<"\n">> \o join_lines(Tail(ls))

\* faulty variant: the id counts the lines read, not the nodes opened
node_id_of_LineNumber(k) == "node_" \o ToString(line_idx)

\* f"node_{node_counter}"
node_id_of(k) == "node_" \o ToString(k)

(***************************************************************************)
(* The file name and the metadata taken from it.                           *)
(***************************************************************************)
\* the characters \w matches, among those of the model
WordChars == Digits \cup UpperLetters \cup LowerLetters \cup {"_"}
\* the class [\d\w\s]
DateChars == WordChars \cup Whitespace

\* the literal parts of the file-name pattern
NoticeLiteral == <<"M", "A", "S", " ", "N", "o", "t", "i", "c", "e", " ">>
DatedLiteral == <<"_", "d", "a", "t", "e", "d", " ">>
EffectiveLiteral == <<"_", "e", "f", "f", "e", "c", "t", "i", "v", "e", " ">>
PdfLiteral == <<".", "p", "d", "f">>
Unknown == <<"U", "n", "k", "n", "o", "w", "n">>

\* os.path.basename(path): what follows the last "/"
RECURSIVE basename(_)
basename(path) ==
    IF \E i \in 1..Len(path) : path[i] = "/"
    THEN basename(SubSeq(path, (CHOOSE i \in 1..Len(path) : path[i] = "/") + 1, Len(path)))
    ELSE path

\* the positions of s at which the literal lit begins
occurrences(lit, s) ==
    {i \in 1..(Len(s) - Len(lit) + 1) : s[i] = lit[1] /\ SubSeq(s, i, i + Len(lit) - 1) = lit}

\* s[a..b] is a non-empty run of characters of the class cls
run_of(s, a, b, cls) == a <= b /\ \A i \in a..b : s[i] \in cls

\* the ways 'MAS Notice (\w+)_dated ([\d\w\s]+)_effective ([\d\w\s]+)\.pdf'
\* matches inside s: where its four literals begin
pattern_matches(s) ==
    {t \in occurrences(NoticeLiteral, s) \X occurrences(DatedLiteral, s)
            \X occurrences(EffectiveLiteral, s) \X occurrences(PdfLiteral, s) :
        /\ run_of(s, t[1] + Len(NoticeLiteral), t[2] - 1, WordChars)
        /\ run_of(s, t[2] + Len(DatedLiteral), t[3] - 1, DateChars)
        /\ run_of(s, t[3] + Len(EffectiveLiteral), t[4] - 1, DateChars)}

\* the order in which the regex engine finds matches: leftmost start first,
\* then each greedy group as long as possible, the earlier group first
found_before(t, u) ==
    \/ t[1] < u[1]
    \/ t[1] = u[1] /\ t[2] > u[2]
    \/ t[1] = u[1] /\ t[2] = u[2] /\ t[3] > u[3]
    \/ t[1] = u[1] /\ t[2] = u[2] /\ t[3] = u[3] /\ t[4] >= u[4]

\* re.search(pattern, s): the groups of the match, or no match
re_search(s) ==
    IF pattern_matches(s) = {}
    THEN [matched |-> FALSE, group1 |-> <<>>, group2 |-> <<>>, group3 |-> <<>>]
    ELSE LET t == CHOOSE t \in pattern_matches(s) :
                      \A u \in pattern_matches(s) : found_before(t, u)
         IN  [matched |-> TRUE,
              group1 |-> SubSeq(s, t[1] + Len(NoticeLiteral), t[2] - 1),
              group2 |-> SubSeq(s, t[2] + Len(DatedLiteral), t[3] - 1),
              group3 |-> SubSeq(s, t[3] + Len(EffectiveLiteral), t[4] - 1)]

\* faulty variant: the notice id is taken as soon as its own part matches
extract_metadata_Partial(filename) ==
    LET match == re_search(filename)
        starts == occurrences(NoticeLiteral, filename)
        first == CHOOSE i \in starts : \A j \in starts : i <= j
        id == SubSeq(filename, first + Len(NoticeLiteral),
                     first + Len(NoticeLiteral) - 1
                       + span(SubSeq(filename, first + Len(NoticeLiteral), Len(filename)),
                              WordChars))
    IN  [notice_id |-> IF starts # {} /\ id # <<>> THEN NoticeLiteral \o id ELSE Unknown,
         publication_date |-> IF match.matched THEN match.group2 ELSE Unknown,
         effective_date |-> IF match.matched THEN match.group3 ELSE Unknown]

\* "if match: ... else: ...": the three metadata fields
extract_metadata(filename) ==
    LET match == re_search(filename)
    IN  IF match.matched
        THEN [notice_id |-> NoticeLiteral \o match.group1,
              publication_date |-> match.group2,
              effective_date |-> match.group3]
        ELSE [notice_id |-> Unknown,
              publication_date |-> Unknown,
              effective_date |-> Unknown]

\* before the file name is read
NoMetadata == [notice_id |-> <<>>, publication_date |-> <<>>, effective_date |-> <<>>]

\* "data/MAS Notice 758_dated 18 Dec 2024_effective 26 Dec 2024.pdf", the
\* path of the parser's test
TestPdfPath ==
    <<"d", "a", "t", "a", "/", "M", "A", "S", " ", "N", "o", "t", "i", "c", "e", " ",
      "7", "5", "8", "_", "d", "a", "t", "e", "d", " ", "1", "8", " ", "D", "e", "c",
      " ", "2", "0", "2", "4", "_", "e", "f", "f", "e", "c", "t", "i", "v", "e", " ",
      "2", "6", " ", "D", "e", "c", " ", "2", "0", "2", "4", ".", "p", "d", "f">>

\* the paths of the model
PdfPaths ==
    {
      TestPdfPath,
      \* "notice.pdf": no part of the pattern
      <<"n", "o", "t", "i", "c", "e", ".", "p", "d", "f">>,
      \* "MAS Notice 7_dated 1 Dec.pdf": no effective date
      <<"M", "A", "S", " ", "N", "o", "t", "i", "c", "e", " ", "7", "_", "d", "a", "t",
        "e", "d", " ", "1", " ", "D", "e", "c", ".", "p", "d", "f">>,
      \* "MAS Notice 1_A_dated 1 Dec_effective 2 Dec.pdf": an id with an underscore
      <<"M", "A", "S", " ", "N", "o", "t", "i", "c", "e", " ", "1", "_", "A", "_", "d",
        "a", "t", "e", "d", " ", "1", " ", "D", "e", "c", "_", "e", "f", "f", "e", "c",
        "t", "i", "v", "e", " ", "2", " ", "D", "e", "c", ".", "p", "d", "f">>,
      \* "MAS Notice 7_dated 1_effective 2_effective 3.pdf": two effective parts
      <<"M", "A", "S", " ", "N", "o", "t", "i", "c", "e", " ", "7", "_", "d", "a", "t",
        "e", "d", " ", "1", "_", "e", "f", "f", "e", "c", "t", "i", "v", "e", " ", "2",
        "_", "e", "f", "f", "e", "c", "t", "i", "v", "e", " ", "3", ".", "p", "d", "f">>,
      \* "MAS Notice PSN-01_dated 1 Dec_effective 2 Dec.pdf": an id with a hyphen
      <<"M", "A", "S", " ", "N", "o", "t", "i", "c", "e", " ", "P", "S", "N", "-", "0",
        "1", "_", "d", "a", "t", "e", "d", " ", "1", " ", "D", "e", "c", "_", "e", "f",
        "f", "e", "c", "t", "i", "v", "e", " ", "2", " ", "D", "e", "c", ".", "p", "d",
        "f">>,
      \* "MAS Notice 1_dated 2_effective 3.pdf/x.pdf": the pattern in the directory only
      <<"M", "A", "S", " ", "N", "o", "t", "i", "c", "e", " ", "1", "_", "d", "a", "t",
        "e", "d", " ", "2", "_", "e", "f", "f", "e", "c", "t", "i", "v", "e", " ", "3",
        ".", "p", "d", "f", "/", "x", ".", "p", "d", "f">>,
      \* "MAS Notice 7_dated Unknown_effective Unknown.pdf": dates that read Unknown
      <<"M", "A", "S", " ", "N", "o", "t", "i", "c", "e", " ", "7", "_", "d", "a", "t",
        "e", "d", " ", "U", "n", "k", "n", "o", "w", "n", "_", "e", "f", "f", "e", "c",
        "t", "i", "v", "e", " ", "U", "n", "k", "n", "o", "w", "n", ".", "p", "d", "f">>,
      \* "MAS Notice 7_dated _effective 2.pdf": an empty publication date
      <<"M", "A", "S", " ", "N", "o", "t", "i", "c", "e", " ", "7", "_", "d", "a", "t",
        "e", "d", " ", "_", "e", "f", "f", "e", "c", "t", "i", "v", "e", " ", "2", ".",
        "p", "d", "f">>,
      \* "x MAS Notice 9_dated 1_effective 2.pdf.bak": text before and after the pattern
      <<"x", " ", "M", "A", "S", " ", "N", "o", "t", "i", "c", "e", " ", "9", "_", "d",
        "a", "t", "e", "d", " ", "1", "_", "e", "f", "f", "e", "c", "t", "i", "v", "e",
        " ", "2", ".", "p", "d", "f", ".", "b", "a", "k">> }

(***************************************************************************)
(* The input lines of the model: marker lines of both kinds, with and      *)
(* without runs of whitespace, continuation lines, blank lines and         *)
(* look-alikes that match no marker.                                       *)
(***************************************************************************)
RawLines ==
    { <<"1", ".", " ", "F">>,                     \* "1. F"      top-level marker
      <<"(", "a", ")", " ", "S">>,                \* "(a) S"     sub-marker
      <<"x", " ", "y">>,                          \* "x y"       no marker
      <<" ", "2", "A", " ", "\t", "G", " ">>,     \* " 2A \tG "  top-level marker, padded
      <<"(", "b", ")", "\t", " ", "T">>,          \* "(b)\t T"   sub-marker, whitespace run
      <<"1", ".">>,                               \* "1."        no marker (nothing follows)
      <<" ", "\t">>,                              \* blank
      <<>> }                                      \* empty

RECURSIVE SeqsUpTo(_, _)
SeqsUpTo(S, n) ==
    IF n = 0 THEN {<<>>}
    ELSE LET shorter == SeqsUpTo(S, n - 1)
         IN  shorter \cup {Append(q, x) : q \in {r \in shorter : Len(r) = n - 1}, x \in S}

(***************************************************************************)
(* parse_mas_notice: the loop over the lines, one action per branch of     *)
(* the loop body, and the code after the loop.                             *)
(***************************************************************************)
current_line == strip(lines[line_idx])

\* nodes[-1]['text'] = re.sub(r'\s+', ' ', nodes[-1]['text']).strip()
cleanup_last(ns) ==
    IF ns = <<>> THEN ns
    ELSE [ns EXCEPT ![Len(ns)].text = normalize(ns[Len(ns)].text)]

\* the metadata is taken from the file name before the PDF is read
ExtractMetadata ==
    /\ ppc = "start"
    /\ doc_metadata' = extract_metadata(basename(pdf_path))
    /\ ppc' = "lines"
    /\ UNCHANGED <<pdf_path, lines, line_idx, nodes, node_counter, last_top_level_node>>
    /\ UNCHANGED <<retrieverVars, enrichVars, storeVars>>

\* "if not line: continue"
SkipBlankLine ==
    /\ ppc = "lines"
    /\ line_idx <= Len(lines)
    /\ current_line = <<>>
    /\ line_idx' = line_idx + 1
    /\ UNCHANGED <<lines, nodes, node_counter, last_top_level_node, ppc>>
    /\ UNCHANGED <<pdf_path, doc_metadata>>
    /\ UNCHANGED <<retrieverVars, enrichVars, storeVars>>

\* faulty variant: the parent is the node opened last, whatever its type
new_parent_id_PreviousNode(is_new_sub_para) ==
    IF is_new_sub_para /\ nodes # <<>>
    THEN nodes[Len(nodes)].node_id
    ELSE None

\* faulty variant: every node opened after a paragraph gets that paragraph as parent
new_parent_id_AnyType(is_new_sub_para) ==
    IF last_top_level_node # 0
    THEN nodes[last_top_level_node].node_id
    ELSE None

\* faulty variant: the parent is the first paragraph of the document
new_parent_id_FirstParagraph(is_new_sub_para) ==
    IF is_new_sub_para /\ last_top_level_node # 0
    THEN nodes[CHOOSE j \in 1..Len(nodes) :
                  /\ nodes[j].node_type = "paragraph"
                  /\ \A i \in 1..(j - 1) : nodes[i].node_type # "paragraph"].node_id
    ELSE None

\* the parent of a node opened now
new_parent_id(is_new_sub_para) ==
    IF is_new_sub_para /\ last_top_level_node # 0
    THEN nodes[last_top_level_node].node_id
    ELSE None

\* faulty variant: the two node types swapped
new_node_type_Swapped(is_new_sub_para) ==
    IF is_new_sub_para THEN "paragraph" ELSE "sub-paragraph"

\* the type of a node opened now
new_node_type(is_new_sub_para) ==
    IF is_new_sub_para THEN "sub-paragraph" ELSE "paragraph"

\* "if is_new_para or is_new_sub_para:"
OpenNode ==
    /\ ppc = "lines"
    /\ line_idx <= Len(lines)
    /\ current_line # <<>>
    /\ LET line == current_line
           is_new_para == para_num_pattern(line)
           is_new_sub_para == para_alpha_pattern(line)
           new_node == [node_id |-> node_id_of(node_counter),
                        node_type |-> new_node_type(is_new_sub_para),
                        text |-> line,
                        parent_id |-> new_parent_id(is_new_sub_para)]
       IN  /\ is_new_para \/ is_new_sub_para
           /\ nodes' = Append(cleanup_last(nodes), new_node)
           /\ node_counter' = node_counter + 1
           /\ last_top_level_node' =
                 IF is_new_para THEN Len(nodes) + 1 ELSE last_top_level_node
    /\ line_idx' = line_idx + 1
    /\ UNCHANGED <<lines, ppc>>
    /\ UNCHANGED <<pdf_path, doc_metadata>>
    /\ UNCHANGED <<retrieverVars, enrichVars, storeVars>>

\* faulty variant: the line goes to the last top-level node when there is one
AppendLine_ToParagraph ==
    /\ ppc = "lines"
    /\ line_idx <= Len(lines)
    /\ current_line # <<>>
    /\ ~para_num_pattern(current_line)
    /\ ~para_alpha_pattern(current_line)
    /\ nodes # <<>>
    /\ LET target == IF last_top_level_node # 0 THEN last_top_level_node ELSE Len(nodes)
       IN  nodes' = [nodes EXCEPT ![target].text = @ \o <<" ">> \o current_line]
    /\ line_idx' = line_idx + 1
    /\ UNCHANGED <<lines, node_counter, last_top_level_node, ppc>>
    /\ UNCHANGED <<pdf_path, doc_metadata>>
    /\ UNCHANGED <<retrieverVars, enrichVars, storeVars>>

\* "elif nodes:": a continuation line
AppendLine ==
    /\ ppc = "lines"
    /\ line_idx <= Len(lines)
    /\ current_line # <<>>
    /\ ~para_num_pattern(current_line)
    /\ ~para_alpha_pattern(current_line)
    /\ nodes # <<>>
    /\ nodes' = [nodes EXCEPT ![Len(nodes)].text = @ \o <<" ">> \o current_line]
    /\ line_idx' = line_idx + 1
    /\ UNCHANGED <<lines, node_counter, last_top_level_node, ppc>>
    /\ UNCHANGED <<pdf_path, doc_metadata>>
    /\ UNCHANGED <<retrieverVars, enrichVars, storeVars>>

\* neither branch: a non-marker line while nodes is empty
DropLine ==
    /\ ppc = "lines"
    /\ line_idx <= Len(lines)
    /\ current_line # <<>>
    /\ ~para_num_pattern(current_line)
    /\ ~para_alpha_pattern(current_line)
    /\ nodes = <<>>
    /\ line_idx' = line_idx + 1
    /\ UNCHANGED <<lines, nodes, node_counter, last_top_level_node, ppc>>
    /\ UNCHANGED <<pdf_path, doc_metadata>>
    /\ UNCHANGED <<retrieverVars, enrichVars, storeVars>>

\* the fallback node for a text without structure
full_text_node ==
    [node_id |-> "node_1",
     node_type |-> "full_text",
     text |-> normalize(join_lines(lines)),
     parent_id |-> None]

\* faulty variant: no fallback node
FinishParse_NoFallback ==
    /\ ppc = "lines"
    /\ line_idx > Len(lines)
    /\ nodes' = cleanup_last(nodes)
    /\ ppc' = "done"
    /\ UNCHANGED <<lines, line_idx, node_counter, last_top_level_node>>
    /\ UNCHANGED <<pdf_path, doc_metadata>>
    /\ UNCHANGED <<retrieverVars, enrichVars, storeVars>>

\* after the loop: final cleanup, the fallback, and the emitted content
FinishParse ==
    /\ ppc = "lines"
    /\ line_idx > Len(lines)
    /\ nodes' = IF nodes # <<>> THEN cleanup_last(nodes) ELSE <<full_text_node>>
    /\ ppc' = "done"
    /\ UNCHANGED <<lines, line_idx, node_counter, last_top_level_node>>
    /\ UNCHANGED <<pdf_path, doc_metadata>>
    /\ UNCHANGED <<retrieverVars, enrichVars, storeVars>>

\* the enrichment, not in use
EnrichOff ==
    /\ api_key = FALSE
    /\ data = [metadata |-> NoMetadata, content |-> <<>>]
    /\ node_idx = 0
    /\ enriched_nodes = <<>>
    /\ requests = <<>>
    /\ enriched_file = [written |-> FALSE, nodes |-> <<>>]
    /\ epc = "off"

\* the index writer, not in use
StoreOff ==
    /\ upserts = <<>>
    /\ stores = 0
    /\ spc = "off"

\* the retriever's own state, not in use
RetrieverUnused ==
    /\ top_n_rerank = 0
    /\ search_results = <<>>
    /\ documents = <<>>
    /\ doc_idx = 0
    /\ ranked_docs = <<>>
    /\ reranked_docs = <<>>
    /\ context_str = <<>>
    /\ expanded_docs = <<>>
    /\ calls = <<>>
    /\ result = None
    /\ rpc = "off"

\* the retriever, not in use
RetrieverOff ==
    /\ collection = <<>>
    /\ RetrieverUnused

InitParser ==
    /\ pdf_path \in PdfPaths
    /\ doc_metadata = NoMetadata
    /\ lines \in (SeqsUpTo(RawLines, MaxLines) \ {<<>>})
    /\ line_idx = 1
    /\ nodes = <<>>
    /\ node_counter = 1
    /\ last_top_level_node = 0
    /\ ppc = "start"
    /\ RetrieverOff
    /\ EnrichOff
    /\ StoreOff

NextParser ==
    \/ ExtractMetadata
    \/ SkipBlankLine
    \/ OpenNode
    \/ AppendLine
    \/ DropLine
    \/ FinishParse

SpecParser == InitParser /\ [][NextParser]_vars

(***************************************************************************)
(* The Retriever.  The index holds records as the Index Writer stores      *)
(* them: the metadata keys the retriever reads are notice_id, node_type    *)
(* and parent_id (the string 'None' for a node without parent).            *)
(***************************************************************************)
IndexedItem(node_type, parent_id, text) ==
    [metadata |-> [notice_id |-> "MAS Notice 758", node_type |-> node_type,
                   parent_id |-> parent_id],
     text |-> text]

\* The seeded index: a paragraph, a sub-paragraph of it, a record whose parent
\* has a parent itself, and a record whose parent is not in the index.
SeededIndex ==
    ("node_1" :> IndexedItem("paragraph", "None", "1. F")) @@
    ("node_2" :> IndexedItem("sub-paragraph", "node_1", "(a) S")) @@
    ("node_3" :> IndexedItem("sub-paragraph", "node_2", "(b) T")) @@
    ("node_4" :> IndexedItem("sub-paragraph", "node_9", "(c) U"))

Range(f) == {f[x] : x \in DOMAIN f}

\* the sequences without repetition over S of length at most n
RECURSIVE InjSeqsUpTo(_, _)
InjSeqsUpTo(S, n) ==
    IF n = 0 THEN {<<>>}
    ELSE LET shorter == InjSeqsUpTo(S, n - 1)
             longest == {r \in shorter : Len(r) = n - 1}
         IN  shorter \cup UNION {{Append(q, x) : x \in S \ Range(q)} : q \in longest}

\* a dict without one of its keys
without_key(d, key) == [x \in DOMAIN d \ {key} |-> d[x]]

\* dict.get(key, default)
dict_get(d, key, default) == IF key \in DOMAIN d THEN d[key] ELSE default

\* a hit of collection.query for id, with the data the index holds
hit_of(id) == [id |-> id, metadata |-> collection[id].metadata, text |-> collection[id].text]

\* faulty variant: the check for an empty result is missing
no_results_Never(sr) == FALSE

\* "not search_results or not search_results['documents'][0]"
no_results(sr) == sr = <<>>

\* initial_docs: one {'metadata', 'text'} per hit, in hit order
initial_docs_of(sr) == [i \in 1..Len(sr) |-> [metadata |-> sr[i].metadata, text |-> sr[i].text]]

\* ---- _expand_context ----

\* "if parent_id and parent_id != 'None'"
has_parent(metadata) ==
    LET parent_id == dict_get(metadata, "parent_id", None)
    IN  parent_id # None /\ parent_id # "" /\ parent_id # "None"

\* faulty variant: the parents of the parents are gathered too
parent_ids_to_fetch_Ancestors(sr) ==
    LET parents == {sr[i].metadata.parent_id :
                       i \in {k \in 1..Len(sr) : has_parent(sr[k].metadata)}}
    IN  parents \cup {collection[p].metadata.parent_id :
                         p \in {q \in parents \cap DOMAIN collection :
                                  has_parent(collection[q].metadata)}}

\* parent_ids_to_fetch after the loop over the hits
parent_ids_to_fetch(sr) ==
    {sr[i].metadata.parent_id : i \in {k \in 1..Len(sr) : has_parent(sr[k].metadata)}}

\* the orders in which collection.get(ids=...) may return the records it holds
collection_get(ids) ==
    LET found == ids \cap DOMAIN collection
    IN  {[i \in 1..Len(q) |-> hit_of(q[i])] :
            q \in {r \in InjSeqsUpTo(found, Cardinality(found)) : Len(r) = Cardinality(found)}}

\* expanded_docs[key] = value: a new key goes last, an old key keeps its place
dict_set(d, entry) ==
    IF \E k \in 1..Len(d) : d[k].id = entry.id
    THEN [k \in 1..Len(d) |-> IF d[k].id = entry.id THEN entry ELSE d[k]]
    ELSE Append(d, entry)

RECURSIVE dict_set_all(_, _)
dict_set_all(d, entries) ==
    IF entries = <<>> THEN d
    ELSE dict_set_all(dict_set(d, Head(entries)), Tail(entries))

\* faulty variant: a fetched parent replaces the entry of a hit with the same id
merge_parents_Overwrite(d, parents_data) == dict_set_all(d, parents_data)

\* "if parent_id not in expanded_docs: expanded_docs[parent_id] = ..."
RECURSIVE merge_parents(_, _)
merge_parents(d, parents_data) ==
    IF parents_data = <<>> THEN d
    ELSE LET p == Head(parents_data)
         IN  merge_parents(IF \E k \in 1..Len(d) : d[k].id = p.id THEN d ELSE Append(d, p),
                           Tail(parents_data))

\* the dict built from the hits and from what the parent fetch returned
expand_context(sr, parents_data) == merge_parents(dict_set_all(<<>>, sr), parents_data)

\* list(expanded_docs.values())
dict_values(d) == [k \in 1..Len(d) |-> [metadata |-> d[k].metadata, text |-> d[k].text]]

\* ---- _rerank_with_gemini ----

\* what a call that raised returns to the caller of the Retriever
ServiceError == "<exception>"

\* the texts a scoring request is answered with
ScoringResponses ==
    { <<"1", "0">>,                        \* "10"
      <<"a", " ", "7", "/", "1", "0">>,    \* "a 7/10"
      <<"0">>,                             \* "0"
      <<"1", "2">>,                        \* "12"
      <<"n", "o">> }                       \* no integer

DigitSeq == <<"0", "1", "2", "3", "4", "5", "6", "7", "8", "9">>
digit_value(c) == (CHOOSE i \in 1..10 : DigitSeq[i] = c) - 1

\* int(ds) for a string of digits
RECURSIVE int_of(_)
int_of(ds) ==
    IF ds = <<>> THEN 0
    ELSE 10 * int_of(SubSeq(ds, 1, Len(ds) - 1)) + digit_value(ds[Len(ds)])

\* re.search(r'\d+', text): the first maximal run of digits, <<>> for no match
RECURSIVE search_digits(_)
search_digits(text) ==
    IF text = <<>> THEN <<>>
    ELSE IF Head(text) \in Digits THEN SubSeq(text, 1, span(text, Digits))
    ELSE search_digits(Tail(text))

\* the outcomes of a scoring request: a response text, or the request raises
ScoringReplies ==
    {[raised |-> FALSE, text |-> t] : t \in ScoringResponses} \cup
    {[raised |-> TRUE, text |-> <<>>]}

\* the score of the try block, 0 from the except block (which also catches
\* the AttributeError of a response without integer)
score_of(reply) ==
    IF reply.raised THEN 0
    ELSE IF search_digits(reply.text) = <<>> THEN 0
    ELSE int_of(search_digits(reply.text))

\* faulty variant: ties are put in reverse input order (ascending sort, then reversed)
insert_desc_BeforeEqual(sorted, item) ==
    LET before == {k \in 1..Len(sorted) : sorted[k].score > item.score}
        n == Cardinality(before)
    IN  SubSeq(sorted, 1, n) \o <<item>> \o SubSeq(sorted, n + 1, Len(sorted))

\* item put after every element whose score is not smaller: the stable order
insert_desc(sorted, item) ==
    LET before == {k \in 1..Len(sorted) : sorted[k].score >= item.score}
        n == Cardinality(before)
    IN  SubSeq(sorted, 1, n) \o <<item>> \o SubSeq(sorted, n + 1, Len(sorted))

\* ranked_docs.sort(key=lambda x: x['score'], reverse=True)
RECURSIVE sort_desc(_)
sort_desc(rd) ==
    IF rd = <<>> THEN <<>>
    ELSE insert_desc(sort_desc(SubSeq(rd, 1, Len(rd) - 1)), rd[Len(rd)])

\* ranked_docs[:top_n]
truncate(rd, top_n) == SubSeq(rd, 1, IF top_n < Len(rd) THEN top_n ELSE Len(rd))

\* "return [item['doc'] for item in ranked_docs[:top_n]]" after the sort
rerank_result(rd, top_n) ==
    LET kept == truncate(sort_desc(rd), top_n)
    IN  [k \in 1..Len(kept) |-> kept[k].doc]

\* ---- synthesize_answer ----

\* the context block of the i-th ranked document
context_block(i, doc) ==
    [label |-> i,
     notice_id |-> doc.metadata.notice_id,
     node_type |-> doc.metadata.node_type,
     parent_id |-> dict_get(doc.metadata, "parent_id", "N/A"),
     text |-> doc.text]

\* context_str: one block per ranked document, in order
context_of(ranked_documents) ==
    [i \in 1..Len(ranked_documents) |-> context_block(i, ranked_documents[i])]

NoDocuments == "Could not find any relevant documents."
AnswerText == "<response.text>"

embed_call == [op |-> "embed_content", arg |-> "user_query"]
query_call == [op |-> "collection.query", arg |-> "n_results"]
get_call(ids) == [op |-> "collection.get", arg |-> ids]
score_call(doc, reply) ==
    [op |-> "generate_content", arg |-> [purpose |-> "score", doc |-> doc], reply |-> reply]
answer_call(ctx) == [op |-> "generate_content", arg |-> [purpose |-> "answer", context |-> ctx]]

\* ---- full_retrieval ----

\* the hits collection.query may return: records of the index, none twice
SearchHits ==
    {[i \in 1..Len(ids) |-> hit_of(ids[i])] : ids \in InjSeqsUpTo(DOMAIN collection, MaxHits)}

\* the list returned by a call of _rerank_with_gemini whose loop has ended
after_scoring(rd) == rerank_result(rd, top_n_rerank)

\* 1. Search, the short-circuit on no hit, and initial_docs
Search ==
    /\ rpc = "idle"
    /\ \E sr \in SearchHits :
          /\ search_results' = sr
          /\ calls' = calls \o <<embed_call, query_call>>
          /\ IF no_results(sr)
             THEN /\ result' = NoDocuments
                  /\ rpc' = "done"
                  /\ UNCHANGED <<documents, reranked_docs>>
             ELSE /\ documents' = initial_docs_of(sr)
                  /\ IF sr = <<>>
                     THEN reranked_docs' = after_scoring(<<>>) /\ rpc' = "synthesize"
                     ELSE reranked_docs' = reranked_docs /\ rpc' = "rerank"
                  /\ UNCHANGED result
    /\ UNCHANGED <<collection, top_n_rerank, doc_idx, ranked_docs, context_str, expanded_docs>>
    /\ UNCHANGED <<parserVars, enrichVars, storeVars>>

\* _search raises: the embedding request or the index query fails
SearchFails ==
    /\ rpc = "idle"
    /\ \E failed \in {"embed_content", "collection.query"} :
          calls' = calls \o (IF failed = "embed_content" THEN <<embed_call>>
                             ELSE <<embed_call, query_call>>)
    /\ result' = ServiceError
    /\ rpc' = "error"
    /\ UNCHANGED <<collection, top_n_rerank, search_results, documents, doc_idx, ranked_docs,
                   reranked_docs, context_str, expanded_docs>>
    /\ UNCHANGED <<parserVars, enrichVars, storeVars>>

\* faulty variant: a document whose scoring failed is left out
scored_DropFailed(rd, doc, reply) ==
    IF reply.raised \/ search_digits(reply.text) = <<>> THEN rd
    ELSE Append(rd, [doc |-> doc, score |-> score_of(reply)])

\* "ranked_docs.append({'doc': doc, 'score': ...})", in the try or the except block
scored(rd, doc, reply) == Append(rd, [doc |-> doc, score |-> score_of(reply)])

\* 2. Re-rank: one pass of the loop over the documents; after the last one the
\* sort and the truncation
ScoreDocument ==
    /\ rpc = "rerank"
    /\ doc_idx < Len(documents)
    /\ \E reply \in ScoringReplies :
          LET doc == documents[doc_idx + 1]
              rd == scored(ranked_docs, doc, reply)
          IN  /\ ranked_docs' = rd
              /\ doc_idx' = doc_idx + 1
              /\ calls' = Append(calls, score_call(doc, reply))
              /\ IF doc_idx' = Len(documents)
                 THEN reranked_docs' = after_scoring(rd) /\ rpc' = "synthesize"
                 ELSE UNCHANGED <<reranked_docs, rpc>>
    /\ UNCHANGED <<collection, top_n_rerank, search_results, documents, context_str,
                   expanded_docs, result>>
    /\ UNCHANGED <<parserVars, enrichVars, storeVars>>

\* faulty variant: the synthesis is given the candidates as they were before reranking
synthesis_documents_Initial == documents

\* "final_answer = self.synthesize_answer(user_query, reranked_docs)"
synthesis_documents == reranked_docs

\* faulty variant: the exception of the synthesis request is swallowed and
\* the call returns normally
outcome_of_Swallowed(response) == "done"

\* faulty variant: a synthesis request that raised is sent once more
outcome_of_Retry(response) ==
    IF response # ServiceError THEN "done"
    ELSE IF /\ calls[Len(calls)].op = "generate_content"
            /\ calls[Len(calls)].arg.purpose = "answer"
         THEN "error"
         ELSE "synthesize"

\* how full_retrieval ends: an exception of generate_content is not caught in
\* the Retriever and reaches run_query's except clause
outcome_of(response) == IF response = ServiceError THEN "error" ELSE "done"

\* 3. Synthesize: the prompt is built and sent; the answer is returned, or the
\* request raises
Synthesize ==
    /\ rpc = "synthesize"
    /\ context_str' = context_of(synthesis_documents)
    /\ calls' = Append(calls, answer_call(context_str'))
    /\ \E response \in {AnswerText, ServiceError} :
          /\ result' = response
          /\ rpc' = outcome_of(response)
    /\ UNCHANGED <<collection, top_n_rerank, search_results, documents, doc_idx, ranked_docs,
                   reranked_docs, expanded_docs>>
    /\ UNCHANGED <<parserVars, enrichVars, storeVars>>

\* a hit whose attached data is older than what the index holds now
stale_hit_of(id) ==
    [id |-> id,
     metadata |-> [collection[id].metadata EXCEPT !.notice_id = "MAS Notice 757"],
     text |-> "old " \o collection[id].text]

\* a hit whose metadata has no key parent_id, as in the retriever's tests
keyless(hit) == [hit EXCEPT !.metadata = without_key(hit.metadata, "parent_id")]

\* a call of _expand_context(search_results)
ExpandContext ==
    /\ rpc = "idle"
    /\ \E ids \in InjSeqsUpTo(DOMAIN collection, MaxHits), stale \in BOOLEAN :
       \E no_key \in SUBSET Range(ids) :
          LET sr == [i \in 1..Len(ids) |->
                       LET hit == IF stale THEN stale_hit_of(ids[i]) ELSE hit_of(ids[i])
                       IN  IF ids[i] \in no_key THEN keyless(hit) ELSE hit]
              to_fetch == parent_ids_to_fetch(sr)
          IN  /\ search_results' = sr
              /\ IF to_fetch # {}
                 THEN /\ \E parents_data \in collection_get(to_fetch) :
                            expanded_docs' = expand_context(sr, parents_data)
                      /\ calls' = Append(calls, get_call(to_fetch))
                 ELSE /\ expanded_docs' = expand_context(sr, <<>>)
                      /\ UNCHANGED calls
    /\ result' = dict_values(expanded_docs')
    /\ rpc' = "expanded"
    /\ UNCHANGED <<collection, top_n_rerank, documents, doc_idx, ranked_docs, reranked_docs,
                   context_str>>
    /\ UNCHANGED <<parserVars, enrichVars, storeVars>>

\* the segmenter, not in use
ParserOff ==
    /\ pdf_path = <<>>
    /\ doc_metadata = NoMetadata
    /\ lines = <<>>
    /\ line_idx = 0
    /\ nodes = <<>>
    /\ node_counter = 0
    /\ last_top_level_node = 0
    /\ ppc = "off"

\* a Retriever connected to the seeded index, before a call
InitRetriever ==
    /\ ParserOff
    /\ EnrichOff
    /\ StoreOff
    /\ collection = SeededIndex
    /\ top_n_rerank \in 0..MaxTopN
    /\ search_results = <<>>
    /\ documents = <<>>
    /\ doc_idx = 0
    /\ ranked_docs = <<>>
    /\ reranked_docs = <<>>
    /\ context_str = <<>>
    /\ expanded_docs = <<>>
    /\ calls = <<>>
    /\ result = None
    /\ rpc = "idle"

NextRetriever ==
    \/ Search
    \/ SearchFails
    \/ ScoreDocument
    \/ Synthesize
    \/ ExpandContext

SpecRetriever == InitRetriever /\ [][NextRetriever]_vars

\* the control flow of ScoreDocument and Synthesize: a call inside the scoring
\* loop takes the next candidate, a call before synthesis ends
NextStatement ==
    \/ /\ rpc = "rerank"
       /\ doc_idx < Len(documents)
       /\ doc_idx' = doc_idx + 1
       /\ rpc' = IF doc_idx' = Len(documents) THEN "synthesize" ELSE "rerank"
    \/ /\ rpc = "synthesize"
       /\ doc_idx' = doc_idx
       /\ rpc' \in {"done", "error"}

\* full_retrieval is straight-line code around one loop over a finite list,
\* run by one thread: a call that has a next statement executes it
SpecRetrieverFair == SpecRetriever /\ WF_<<rpc, doc_idx>>(NextStatement)

(***************************************************************************)
(* enrich_and_embed: the loop over the nodes of the structured data, one   *)
(* action per way the loop body ends, and the save after the loop.  What   *)
(* the model answers is kept symbolic: the summary of a text, the question *)
(* on it and the embedding of a content are that content under a tag.      *)
(***************************************************************************)
\* the largest number of nodes of a structured document
MaxNodes == 3

NodeTypes == {"paragraph", "sub-paragraph"}

\* the text of a node of the structured data, by type
text_of_type(node_type) ==
    CASE node_type = "paragraph" -> <<"1", ".", " ", "F">>
      [] node_type = "sub-paragraph" -> <<"(", "a", ")", " ", "S">>
      [] OTHER -> <<"x", " ", "y">>

\* the k-th node of a structured document whose nodes have the types given:
\* the id counts up and a sub-paragraph refers to the last paragraph before it
structured_node(types, has_text, k) ==
    LET paragraphs == {j \in 1..(k - 1) : types[j] = "paragraph"}
        last == CHOOSE j \in paragraphs : \A i \in paragraphs : i <= j
    IN  [node_id |-> node_id_of(k),
         node_type |-> types[k],
         text |-> IF has_text[k] THEN text_of_type(types[k]) ELSE <<>>,
         parent_id |-> IF types[k] = "sub-paragraph" /\ paragraphs # {}
                       THEN node_id_of(last) ELSE None]

\* data['content'] of the files of the model: the nodes of a structured
\* document, or the one full_text node; node.get('text', '') may be empty
StructuredContents ==
    UNION {{[k \in 1..n |-> structured_node(types, has_text, k)] :
               types \in [1..n -> NodeTypes], has_text \in [1..n -> BOOLEAN]} :
           n \in 1..MaxNodes}
    \cup {<<[node_id |-> "node_1", node_type |-> "full_text", text |-> t, parent_id |-> None]>> :
             t \in {<<>>, text_of_type("full_text")}}

\* summary_response.text, question_response.text and ['embedding']
summary_of(text) == <<"<summary>">> \o text
question_of(text) == <<"<question>">> \o text
embedding_of(content) == <<"<embedding>">> \o content

\* a request for a node; ok: it returned a result the code could use
request(op, node, about) == [op |-> op, node |-> node.node_id, about |-> about, ok |-> TRUE]

\* faulty variant: the text is embedded before anything is generated
node_requests_EmbedFirst(node) ==
    << request("embed_content", node, "text"),
       request("generate_content", node, "summary"),
       request("generate_content", node, "question"),
       request("embed_content", node, "summary"),
       request("embed_content", node, "question") >>

\* the requests of the try block for one node, in program order
node_requests(node) ==
    << request("generate_content", node, "summary"),
       request("generate_content", node, "question"),
       request("embed_content", node, "text"),
       request("embed_content", node, "summary"),
       request("embed_content", node, "question") >>

\* the enriched data object of a node of a document with metadata md
enriched_record(node, md) ==
    LET text == dict_get(node, "text", <<>>)
    IN  [id |-> node.node_id,
         values |-> [content |-> embedding_of(text),
                     summary |-> embedding_of(summary_of(text)),
                     question |-> embedding_of(question_of(text))],
         metadata |-> [original_text |-> text,
                       summary |-> summary_of(text),
                       hypothetical_question |-> question_of(text),
                       notice_id |-> md.notice_id,
                       publication_date |-> md.publication_date,
                       effective_date |-> md.effective_date,
                       node_type |-> node.node_type,
                       parent_id |-> dict_get(node, "parent_id", None)]]

enriched_node_of(node) == enriched_record(node, data.metadata)

current_node == data.content[node_idx]

\* "if not api_key: ... return"
MissingApiKey ==
    /\ epc = "start"
    /\ ~api_key
    /\ epc' = "no_key"
    /\ UNCHANGED <<api_key, data, node_idx, enriched_nodes, requests, enriched_file>>
    /\ UNCHANGED <<parserVars, retrieverVars, storeVars>>

\* the SDK is configured and the structured data loaded
LoadStructuredData ==
    /\ epc = "start"
    /\ api_key
    /\ epc' = "loop"
    /\ UNCHANGED <<api_key, data, node_idx, enriched_nodes, requests, enriched_file>>
    /\ UNCHANGED <<parserVars, retrieverVars, storeVars>>

\* "if not text: continue"
SkipEmptyNode ==
    /\ epc = "loop"
    /\ node_idx <= Len(data.content)
    /\ dict_get(current_node, "text", <<>>) = <<>>
    /\ node_idx' = node_idx + 1
    /\ UNCHANGED <<api_key, data, enriched_nodes, requests, enriched_file, epc>>
    /\ UNCHANGED <<parserVars, retrieverVars, storeVars>>

\* the try block runs to its end: the record is appended
EnrichNode ==
    /\ epc = "loop"
    /\ node_idx <= Len(data.content)
    /\ dict_get(current_node, "text", <<>>) # <<>>
    /\ requests' = requests \o node_requests(current_node)
    /\ enriched_nodes' = Append(enriched_nodes, enriched_node_of(current_node))
    /\ node_idx' = node_idx + 1
    /\ UNCHANGED <<api_key, data, enriched_file, epc>>
    /\ UNCHANGED <<parserVars, retrieverVars, storeVars>>

\* faulty variant: the exception of a request ends the loop
EnrichNodeFails_Break ==
    /\ epc = "loop"
    /\ node_idx <= Len(data.content)
    /\ dict_get(current_node, "text", <<>>) # <<>>
    /\ \E k \in 1..Len(node_requests(current_node)) :
          requests' = requests \o SubSeq(node_requests(current_node), 1, k - 1)
                        \o <<[node_requests(current_node)[k] EXCEPT !.ok = FALSE]>>
    /\ node_idx' = Len(data.content) + 1
    /\ UNCHANGED <<api_key, data, enriched_nodes, enriched_file, epc>>
    /\ UNCHANGED <<parserVars, retrieverVars, storeVars>>

\* the k-th request of the try block raises, or what it returns cannot be
\* used: "except Exception ... continue"
EnrichNodeFails ==
    /\ epc = "loop"
    /\ node_idx <= Len(data.content)
    /\ dict_get(current_node, "text", <<>>) # <<>>
    /\ \E k \in 1..Len(node_requests(current_node)) :
          requests' = requests \o SubSeq(node_requests(current_node), 1, k - 1)
                        \o <<[node_requests(current_node)[k] EXCEPT !.ok = FALSE]>>
    /\ node_idx' = node_idx + 1
    /\ UNCHANGED <<api_key, data, enriched_nodes, enriched_file, epc>>
    /\ UNCHANGED <<parserVars, retrieverVars, storeVars>>

\* after the loop: json.dump(enriched_nodes, f)
SaveEnrichedData ==
    /\ epc = "loop"
    /\ node_idx > Len(data.content)
    /\ enriched_file' = [written |-> TRUE, nodes |-> enriched_nodes]
    /\ epc' = "done"
    /\ UNCHANGED <<api_key, data, node_idx, enriched_nodes, requests>>
    /\ UNCHANGED <<parserVars, retrieverVars, storeVars>>

InitEnrich ==
    /\ ParserOff
    /\ RetrieverOff
    /\ StoreOff
    /\ api_key \in BOOLEAN
    /\ data \in {[metadata |-> extract_metadata(basename(TestPdfPath)), content |-> c] :
                    c \in StructuredContents}
    /\ node_idx = 1
    /\ enriched_nodes = <<>>
    /\ requests = <<>>
    /\ enriched_file = [written |-> FALSE, nodes |-> <<>>]
    /\ epc = "start"

NextEnrich ==
    \/ MissingApiKey
    \/ LoadStructuredData
    \/ SkipEmptyNode
    \/ EnrichNode
    \/ EnrichNodeFails
    \/ SaveEnrichedData

SpecEnrich == InitEnrich /\ [][NextEnrich]_vars

(***************************************************************************)
(* store_vectors_chroma: one action for a call.  The collection is the one *)
(* the Retriever reads.                                                    *)
(***************************************************************************)
\* the largest number of times the same file is stored
MaxStores == 2

\* the increasing sequence of the numbers in S
RECURSIVE sorted_seq(_)
sorted_seq(S) ==
    IF S = {} THEN <<>>
    ELSE LET least == CHOOSE x \in S : \A y \in S : x <= y
         IN  <<least>> \o sorted_seq(S \ {least})

\* an enriched file: the records of the nodes kept of a document, in node
\* order; in the records of the nodes in missing the key parent_id is absent
enriched_file_of(content, kept, missing) ==
    [r \in 1..Cardinality(kept) |->
        LET k == sorted_seq(kept)[r]
            record == enriched_record(content[k], extract_metadata(basename(TestPdfPath)))
        IN  IF k \in missing
            THEN [record EXCEPT !.metadata = without_key(record.metadata, "parent_id")]
            ELSE record]

\* the enriched file enrich_and_embed writes for the structured data of the
\* PDF at path, when the requests of the nodes in kept succeed
enriched_file_at(path, content, kept) ==
    [r \in 1..Cardinality(kept) |->
        enriched_record(content[sorted_seq(kept)[r]], extract_metadata(basename(path)))]

\* json.load(f) of the files of the model
EnrichedFiles ==
    UNION {UNION {{enriched_file_of(content, kept, missing) : missing \in SUBSET kept} :
                     kept \in SUBSET {k \in 1..Len(content) : content[k].text # <<>>}} :
           content \in StructuredContents}

\* faulty variant: null is written the way json.dumps writes it
str_Json(v) == IF v = None THEN "null" ELSE v

\* str(v)
str(v) == IF v = None THEN "None" ELSE v

\* faulty variant: the value of the key is kept as it is
coerce_parent_id_NoStr(md) ==
    [x \in DOMAIN md \cup {"parent_id"} |->
        IF x = "parent_id" THEN dict_get(md, "parent_id", "None") ELSE md[x]]

\* node['metadata']['parent_id'] = str(node['metadata'].get('parent_id', 'None'))
coerce_parent_id(md) ==
    [x \in DOMAIN md \cup {"parent_id"} |->
        IF x = "parent_id" THEN str(dict_get(md, "parent_id", "None")) ELSE md[x]]

\* the four lists the loop over enriched_nodes builds
upsert_call(enriched) ==
    [ids |-> [i \in 1..Len(enriched) |-> enriched[i].id],
     embeddings |-> [i \in 1..Len(enriched) |-> enriched[i].values.content],
     metadatas |-> [i \in 1..Len(enriched) |-> coerce_parent_id(enriched[i].metadata)],
     documents |-> [i \in 1..Len(enriched) |-> enriched[i].metadata.original_text]]

\* the record the collection holds for the i-th entry of an upsert
upserted_record(call, i) ==
    [metadata |-> call.metadatas[i], text |-> call.documents[i], embedding |-> call.embeddings[i]]

\* faulty variant: collection.add, which leaves the record of a known id as it is
upsert_AddOnly(coll, call) ==
    [id \in DOMAIN coll \cup Range(call.ids) |->
        IF id \in DOMAIN coll THEN coll[id]
        ELSE upserted_record(call, CHOOSE i \in 1..Len(call.ids) : call.ids[i] = id)]

\* collection.upsert(ids, embeddings, metadatas, documents): a new id is
\* added, the record of a known id is replaced
upsert(coll, call) ==
    [id \in DOMAIN coll \cup Range(call.ids) |->
        IF id \in Range(call.ids)
        THEN upserted_record(call, CHOOSE i \in 1..Len(call.ids) : call.ids[i] = id)
        ELSE coll[id]]

\* faulty variant: the lists are upserted whatever their length
upserts_of_Unguarded(enriched) == <<upsert_call(enriched)>>

\* the upserts of one call: none when the file holds no record ("if not
\* enriched_nodes: return") and none when no id was collected ("if ids:")
upserts_of(enriched) ==
    IF enriched = <<>> THEN <<>>
    ELSE IF upsert_call(enriched).ids # <<>> THEN <<upsert_call(enriched)>>
    ELSE <<>>

\* what an earlier ingestion left in the collection: a document without
\* structure, stored as its one full_text node
PriorIndex ==
    upsert(<<>>, upsert_call(<<enriched_record(
        [node_id |-> "node_1", node_type |-> "full_text",
         text |-> text_of_type("full_text"), parent_id |-> None],
        extract_metadata(Unknown))>>))

\* a call of store_vectors_chroma(enriched_data_path) that returns
StoreVectors ==
    /\ spc = "idle"
    /\ stores < MaxStores
    /\ api_key
    /\ LET calls_made == upserts_of(enriched_file.nodes)
       IN  /\ upserts' = upserts \o calls_made
           /\ collection' = IF calls_made = <<>> THEN collection
                            ELSE upsert(collection, calls_made[1])
    /\ stores' = stores + 1
    /\ UNCHANGED spc
    /\ UNCHANGED <<top_n_rerank, search_results, documents, doc_idx, ranked_docs,
                   reranked_docs, context_str, expanded_docs, calls, result, rpc>>
    /\ UNCHANGED <<parserVars, enrichVars>>

\* "if not api_key: raise ValueError"
StoreWithoutApiKey ==
    /\ spc = "idle"
    /\ ~api_key
    /\ spc' = "error"
    /\ UNCHANGED <<upserts, stores>>
    /\ UNCHANGED <<parserVars, retrieverVars, enrichVars>>

InitStore ==
    /\ ParserOff
    /\ RetrieverUnused
    /\ collection \in {<<>>, PriorIndex}
    /\ api_key \in BOOLEAN
    /\ data = [metadata |-> NoMetadata, content |-> <<>>]
    /\ node_idx = 0
    /\ enriched_nodes = <<>>
    /\ requests = <<>>
    /\ enriched_file \in {[written |-> TRUE, nodes |-> f] : f \in EnrichedFiles}
    /\ epc = "off"
    /\ upserts = <<>>
    /\ stores = 0
    /\ spc = "idle"

NextStore ==
    \/ StoreVectors
    \/ StoreWithoutApiKey

SpecStore == InitStore /\ [][NextStore]_vars

(***************************************************************************)
(* main.py: run_ingestion, called for one PDF after another.               *)
(***************************************************************************)
\* the PDFs ingested: "data/MAS Notice 758_dated 18 Dec 2024_effective 26 Dec
\* 2024.pdf" and "MAS Notice 7_dated 1 Dec_effective 2 Dec.pdf"
IngestPaths ==
    {TestPdfPath,
     <<"M", "A", "S", " ", "N", "o", "t", "i", "c", "e", " ", "7", "_", "d", "a", "t",
       "e", "d", " ", "1", " ", "D", "e", "c", "_", "e", "f", "f", "e", "c", "t", "i",
       "v", "e", " ", "2", " ", "D", "e", "c", ".", "p", "d", "f">>}

\* what parse_mas_notice emits: every node has the text of its lines
ParsedContents == {c \in StructuredContents : \A k \in 1..Len(c) : c[k].text # <<>>}

\* a call of run_ingestion(pdf_path) that runs to its end: the PDF is parsed,
\* the nodes whose requests succeed are enriched and the enriched file is
\* stored into the collection "mas_notices"
RunIngestion ==
    /\ spc = "idle"
    /\ stores < MaxStores
    /\ \E path \in IngestPaths, content \in ParsedContents :
       \E kept \in SUBSET (1..Len(content)) :
          LET md == extract_metadata(basename(path))
              enriched == enriched_file_at(path, content, kept)
              calls_made == upserts_of(enriched)
          IN  /\ pdf_path' = path
              /\ doc_metadata' = md
              /\ data' = [metadata |-> md, content |-> content]
              /\ enriched_file' = [written |-> TRUE, nodes |-> enriched]
              /\ upserts' = upserts \o calls_made
              /\ collection' = IF calls_made = <<>> THEN collection
                               ELSE upsert(collection, calls_made[1])
    /\ stores' = stores + 1
    /\ UNCHANGED <<lines, line_idx, nodes, node_counter, last_top_level_node, ppc>>
    /\ UNCHANGED <<top_n_rerank, search_results, documents, doc_idx, ranked_docs,
                   reranked_docs, context_str, expanded_docs, calls, result, rpc>>
    /\ UNCHANGED <<api_key, node_idx, enriched_nodes, requests, epc, spc>>

\* an empty collection "mas_notices" and GOOGLE_API_KEY set
InitIngest ==
    /\ ParserOff
    /\ RetrieverUnused
    /\ collection = <<>>
    /\ api_key = TRUE
    /\ data = [metadata |-> NoMetadata, content |-> <<>>]
    /\ node_idx = 0
    /\ enriched_nodes = <<>>
    /\ requests = <<>>
    /\ enriched_file = [written |-> FALSE, nodes |-> <<>>]
    /\ epc = "off"
    /\ upserts = <<>>
    /\ stores = 0
    /\ spc = "idle"

NextIngest == RunIngestion

SpecIngest == InitIngest /\ [][NextIngest]_vars

(***************************************************************************)
(* Properties of the segmenter.                                            *)
(***************************************************************************)
StrippedLines == [i \in 1..Len(lines) |-> strip(lines[i])]
IsMarker(l) == para_num_pattern(l) \/ para_alpha_pattern(l)
MarkerLines == SelectSeq(StrippedLines, IsMarker)
IsPrefix(p, s) == Len(p) <= Len(s) /\ SubSeq(s, 1, Len(p)) = p

\* C2: the emitted document has at least one node; when no line matches a
\* marker it has exactly one node, of type full_text, with null parent_id.
C2_NonEmptyDocument ==
    ppc = "done" =>
        /\ Len(nodes) >= 1
        /\ MarkerLines = <<>> =>
              /\ Len(nodes) = 1
              /\ nodes[1].node_type = "full_text"
              /\ nodes[1].parent_id = None

\* a text with content but no marker has been segmented
C2_Witness ==
    /\ ppc = "done"
    /\ MarkerLines = <<>>
    /\ \E i \in 1..Len(lines) : StrippedLines[i] # <<>>
    /\ Len(nodes) = 1
    /\ nodes[1].text # <<>>

\* C3: every sub-paragraph node with a non-null parent_id references a node of
\* the same document that has type paragraph and comes strictly earlier.
C3_ParentIsEarlierParagraph ==
    \A i \in 1..Len(nodes) :
        (nodes[i].node_type = "sub-paragraph" /\ nodes[i].parent_id # None) =>
            /\ \E j \in 1..(i - 1) : nodes[j].node_id = nodes[i].parent_id
            /\ \A j \in 1..Len(nodes) :
                  nodes[j].node_id = nodes[i].parent_id =>
                      j < i /\ nodes[j].node_type = "paragraph"

\* a sub-paragraph that follows another sub-paragraph has a parent
C3_Witness ==
    /\ ppc = "done"
    /\ \E i \in 2..Len(nodes) :
          /\ nodes[i].node_type = "sub-paragraph"
          /\ nodes[i - 1].node_type = "sub-paragraph"
          /\ nodes[i].parent_id # None

\* C4 as stated: one node per marker line, in line order, typed by the
\* pattern the line matches, its text beginning with the marker line itself.
C4_TextBeginsWithMarkerLine ==
    (ppc = "done" /\ MarkerLines # <<>>) =>
        /\ Len(nodes) = Len(MarkerLines)
        /\ \A k \in 1..Len(nodes) :
              /\ para_num_pattern(MarkerLines[k]) => nodes[k].node_type = "paragraph"
              /\ para_alpha_pattern(MarkerLines[k]) => nodes[k].node_type = "sub-paragraph"
              /\ IsPrefix(MarkerLines[k], nodes[k].text)

\* C4 amended: one node per marker line, in line order, typed by the pattern
\* the line matches, its text beginning with the whitespace-normalised marker
\* line (every run of whitespace of the line collapsed to one space).
C4_OneNodePerMarkerLine ==
    (ppc = "done" /\ MarkerLines # <<>>) =>
        /\ Len(nodes) = Len(MarkerLines)
        /\ \A k \in 1..Len(nodes) :
              /\ para_num_pattern(MarkerLines[k]) => nodes[k].node_type = "paragraph"
              /\ para_alpha_pattern(MarkerLines[k]) => nodes[k].node_type = "sub-paragraph"
              /\ IsPrefix(normalize(MarkerLines[k]), nodes[k].text)

\* paragraph, sub-paragraph, paragraph, as in the parser's test, from three lines
C4_Witness ==
    /\ ppc = "done"
    /\ Len(lines) = 3
    /\ Len(nodes) = 3
    /\ nodes[1].node_type = "paragraph"
    /\ nodes[2].node_type = "sub-paragraph"
    /\ nodes[3].node_type = "paragraph"

\* C5: paragraph and full_text nodes always have a null parent_id.
C5_OnlySubParagraphsHaveParent ==
    \A i \in 1..Len(nodes) :
        nodes[i].node_type \in {"paragraph", "full_text"} => nodes[i].parent_id = None

\* a paragraph opened after a sub-paragraph that has a parent
C5_Witness ==
    /\ ppc = "done"
    /\ \E i \in 2..Len(nodes) :
          /\ nodes[i].node_type = "paragraph"
          /\ nodes[i - 1].node_type = "sub-paragraph"
          /\ nodes[i - 1].parent_id # None

(***************************************************************************)
(* Properties of the Retriever.                                            *)
(***************************************************************************)
IsScoreCall(c) == c.op = "generate_content" /\ c.arg.purpose = "score"
IsAnswerCall(c) == c.op = "generate_content" /\ c.arg.purpose = "answer"
ScoreCalls == SelectSeq(calls, IsScoreCall)
AnswerCalls == SelectSeq(calls, IsAnswerCall)

\* a call of full_retrieval has handed candidates to reranking
RerankingStarted == rpc \in {"rerank", "synthesize", "done", "error"} /\ documents # <<>>
\* a call of _rerank_with_gemini has returned
RerankingReturned == rpc \in {"synthesize", "done", "error"} /\ documents # <<>>

\* the hits and the index records that are parents of hits, as candidates
ExpandedCandidates(sr) ==
    Range(initial_docs_of(sr)) \cup
    {[metadata |-> collection[p].metadata, text |-> collection[p].text] :
        p \in {q \in parent_ids_to_fetch(sr) \cap DOMAIN collection :
                 \A i \in 1..Len(sr) : sr[i].id # q}}

\* C1: in full_retrieval the parents of the hits are fetched before any
\* scoring request, and the candidates handed to reranking are the expanded
\* set (the hits plus their fetched parents), not the raw hits.
C1_RerankingGetsExpandedSet ==
    RerankingStarted =>
        /\ Range(documents) = ExpandedCandidates(search_results)
        /\ parent_ids_to_fetch(search_results) # {} =>
              \E i \in 1..Len(calls) :
                  /\ calls[i].op = "collection.get"
                  /\ \A j \in 1..Len(calls) : IsScoreCall(calls[j]) => i < j

\* C6: when the search returns zero hits, full_retrieval returns the fixed
\* 'no relevant documents' outcome and issues no expansion fetch, no scoring
\* request and no synthesis request.
C6_NoHitsShortCircuit ==
    (rpc \in {"rerank", "synthesize", "done"} /\ search_results = <<>>) =>
        /\ rpc = "done"
        /\ result = NoDocuments
        /\ \A i \in 1..Len(calls) : calls[i].op \notin {"collection.get", "generate_content"}

\* a search has returned no hit and the call has returned
C6_Witness ==
    /\ rpc = "done"
    /\ search_results = <<>>
    /\ calls = <<embed_call, query_call>>

\* a scoring reply that yields no score: the request raised, or its text
\* holds no digit
ScoringFailed(reply) ==
    reply.raised \/ \A i \in 1..Len(reply.text) : reply.text[i] \notin Digits

\* C7: reranking is total under scoring failures: every candidate passed is
\* scored by exactly one request, a candidate whose scoring failed gets score 0
\* and stays in the scored list, and the returned list has exactly
\* min(top_n, number of candidates) elements, each one of the candidates, none
\* repeated.
C7_RerankingTotal ==
    /\ Len(ScoreCalls) = doc_idx
    /\ Len(ranked_docs) = doc_idx
    /\ doc_idx <= Len(documents)
    /\ \A k \in 1..doc_idx :
          /\ ScoreCalls[k].arg.doc = documents[k]
          /\ ranked_docs[k].doc = documents[k]
          /\ ScoringFailed(ScoreCalls[k].reply) => ranked_docs[k].score = 0
    /\ RerankingReturned =>
          /\ doc_idx = Len(documents)
          /\ Len(reranked_docs) =
                (IF top_n_rerank < Len(documents) THEN top_n_rerank ELSE Len(documents))
          /\ \A i \in 1..Len(reranked_docs) : reranked_docs[i] \in Range(documents)
          /\ \A i, j \in 1..Len(reranked_docs) : i # j => reranked_docs[i] # reranked_docs[j]

\* three candidates, one whose request raised and one whose response holds no
\* integer, and a failed candidate is among those returned
C7_Witness ==
    /\ RerankingReturned
    /\ Len(documents) = 3
    /\ \E k \in 1..3 : ScoreCalls[k].reply.raised /\ documents[k] \in Range(reranked_docs)
    /\ \E k \in 1..3 : ~ScoreCalls[k].reply.raised /\ ScoringFailed(ScoreCalls[k].reply)

\* the position of a candidate in the list handed to reranking, and its score
PositionOf(d) == CHOOSE i \in 1..Len(documents) : documents[i] = d
ScoreAt(d) == ranked_docs[PositionOf(d)].score
\* d1 is ranked ahead of d2: a higher score, or the same score and earlier in the input
RankedAhead(d1, d2) ==
    \/ ScoreAt(d1) > ScoreAt(d2)
    \/ ScoreAt(d1) = ScoreAt(d2) /\ PositionOf(d1) < PositionOf(d2)

\* C8: the returned list is the first top_n candidates in descending order of
\* score, candidates of equal score in their input order; no returned
\* candidate has a lower score than one placed after it or one truncated away.
C8_SortedStableTruncated ==
    RerankingReturned =>
        /\ \A i, j \in 1..Len(reranked_docs) :
              i < j => RankedAhead(reranked_docs[i], reranked_docs[j])
        /\ \A i \in 1..Len(reranked_docs) :
              \A d \in Range(documents) \ Range(reranked_docs) :
                  RankedAhead(reranked_docs[i], d)

\* three candidates, the first with a lower score than the two others, which
\* tie; one of the tied candidates is returned first, the other is cut or second
C8_Witness ==
    /\ RerankingReturned
    /\ Len(documents) = 3
    /\ ranked_docs[1].score < ranked_docs[2].score
    /\ ranked_docs[2].score = ranked_docs[3].score
    /\ top_n_rerank = 2
    /\ reranked_docs[1] = documents[2]
    /\ reranked_docs[2] = documents[3]

\* C9: the expanded set is keyed by id: every hit appears exactly once, with
\* the metadata and text of the hit, also when its id is among the fetched
\* parents; no id appears twice.
C9_ExpansionDeduplicated ==
    rpc = "expanded" =>
        /\ \A i \in 1..Len(search_results) :
              /\ Cardinality({k \in 1..Len(expanded_docs) :
                                 expanded_docs[k].id = search_results[i].id}) = 1
              /\ \A k \in 1..Len(expanded_docs) :
                    expanded_docs[k].id = search_results[i].id =>
                        expanded_docs[k] = search_results[i]
        /\ \A k, l \in 1..Len(expanded_docs) :
              k # l => expanded_docs[k].id # expanded_docs[l].id
        /\ Len(result) = Len(expanded_docs)

\* a hit whose parent is a hit too, with data that differs from the index's,
\* and the parent was fetched
C9_Witness ==
    /\ rpc = "expanded"
    /\ \E i, j \in 1..Len(search_results) :
          /\ "parent_id" \in DOMAIN search_results[j].metadata
          /\ search_results[j].metadata.parent_id = search_results[i].id
          /\ search_results[i].text # collection[search_results[i].id].text
          /\ \E c \in 1..Len(calls) :
                calls[c].op = "collection.get" /\ search_results[i].id \in calls[c].arg

\* C10: the synthesis prompt holds one context block per candidate returned
\* by reranking, in rank order, at most top_n_rerank of them, and no block for
\* a candidate that reranking cut.
C10_PromptOnlyReranked ==
    (rpc \in {"done", "error"} /\ AnswerCalls # <<>>) =>
        /\ Len(AnswerCalls) = 1
        /\ AnswerCalls[1].arg.context = context_str
        /\ Len(context_str) = Len(reranked_docs)
        /\ Len(context_str) <= top_n_rerank
        /\ \A i \in 1..Len(context_str) :
              /\ context_str[i].label = i
              /\ context_str[i].text = reranked_docs[i].text
              /\ context_str[i].notice_id = reranked_docs[i].metadata.notice_id
              /\ context_str[i].node_type = reranked_docs[i].metadata.node_type
        /\ \A d \in Range(documents) \ Range(reranked_docs) :
              \A i \in 1..Len(context_str) : context_str[i].text # d.text

\* three hits, two kept in an order that differs from the hit order, and the
\* answer returned
C10_Witness ==
    /\ rpc = "done"
    /\ result = AnswerText
    /\ Len(documents) = 3
    /\ Len(context_str) = 2
    /\ context_str[1].text = documents[3].text
    /\ context_str[2].text = documents[1].text

\* the embedding and the index-query requests among those issued
IsEmbedCall(c) == c.op = "embed_content"
IsQueryCall(c) == c.op = "collection.query"
EmbedCalls == SelectSeq(calls, IsEmbedCall)
QueryCalls == SelectSeq(calls, IsQueryCall)

\* C11: a failure inside Search or inside Synthesis ends the query in a
\* terminal error: after a Search failure no scoring and no synthesis request
\* is issued, after a Synthesis failure no answer text is returned, and the
\* failed stage is not retried; a failure inside Reranking never ends the
\* query in an error.
C11_TerminalErrors ==
    rpc # "expanded" =>
        \* no stage is run twice
        /\ Len(EmbedCalls) <= 1
        /\ Len(QueryCalls) <= 1
        /\ Len(AnswerCalls) <= 1
        /\ result = ServiceError <=> rpc = "error"
        /\ rpc = "error" =>
              \* the query has ended
              /\ ~ENABLED NextRetriever
              \* the failed stage is Search or Synthesis, never a scoring request
              /\ calls # <<>>
              /\ ~IsScoreCall(calls[Len(calls)])
              /\ AnswerCalls = <<>> =>
                    \* Search failed: nothing was scored
                    /\ IsEmbedCall(calls[Len(calls)]) \/ IsQueryCall(calls[Len(calls)])
                    /\ ScoreCalls = <<>>
                    /\ search_results = <<>>
                    /\ documents = <<>>
              /\ AnswerCalls # <<>> =>
                    \* Synthesis failed: no answer text
                    /\ IsAnswerCall(calls[Len(calls)])
                    /\ result # AnswerText
        \* a failed scoring request leaves the query running
        /\ (rpc \in {"rerank", "synthesize"} /\ ScoreCalls # <<>>) => result = None
        /\ (rpc = "done" /\ ScoreCalls # <<>>) => result = AnswerText

\* the synthesis request failed after a query whose scoring requests had all
\* failed, which did not end the query
C11_Witness ==
    /\ rpc = "error"
    /\ Len(AnswerCalls) = 1
    /\ Len(ScoreCalls) = 2
    /\ \A k \in 1..2 : ScoringFailed(ScoreCalls[k].reply)
    /\ ScoreCalls[1].reply.raised

(***************************************************************************)
(* Properties of the segmenter's ids, parents and continuation lines.      *)
(***************************************************************************)
\* the number an id ends with
NodeNumber(id) == CHOOSE n \in 1..(Len(lines) + 1) : id = "node_" \o ToString(n)

\* C17: node ids within one document are pairwise distinct and strictly
\* increasing in emission order: the k-th emitted node has id node_k, for
\* every input.
C17_KthNodeIsNodeK ==
    /\ \A k \in 1..Len(nodes) : nodes[k].node_id = "node_" \o ToString(k)
    /\ \A i, j \in 1..Len(nodes) :
          /\ i # j => nodes[i].node_id # nodes[j].node_id
          /\ i < j => NodeNumber(nodes[i].node_id) < NodeNumber(nodes[j].node_id)
    /\ ppc = "lines" => node_counter = Len(nodes) + 1

\* two nodes emitted from three lines, the first of which opened no node
C17_Witness ==
    /\ ppc = "done"
    /\ Len(lines) = 3
    /\ StrippedLines[1] # <<>>
    /\ ~IsMarker(StrippedLines[1])
    /\ Len(nodes) = 2
    /\ nodes[2].node_id = "node_2"

\* the positions of the paragraph nodes before node i
ParagraphsBefore(i) == {j \in 1..(i - 1) : nodes[j].node_type = "paragraph"}
Max(S) == CHOOSE x \in S : \A y \in S : y <= x
NearestParagraphBefore(i) == IF ParagraphsBefore(i) = {} THEN 0 ELSE Max(ParagraphsBefore(i))

\* every sub-paragraph's parent is the nearest paragraph before it, and the
\* tracked reference is the nearest paragraph of the nodes opened so far
C19_ParentIsNearest ==
    /\ \A i \in 1..Len(nodes) :
          nodes[i].node_type = "sub-paragraph" =>
              nodes[i].parent_id =
                  IF NearestParagraphBefore(i) = 0 THEN None
                  ELSE nodes[NearestParagraphBefore(i)].node_id
    /\ last_top_level_node = NearestParagraphBefore(Len(nodes) + 1)

\* the tracked reference moves only in a step that reads a top-level marker
\* line, and then to the node that step opens; no step changes the parent_id
\* of a node already opened
C19_ParentChangeStep ==
    /\ last_top_level_node' # last_top_level_node =>
          /\ ppc = "lines"
          /\ line_idx <= Len(lines)
          /\ para_num_pattern(current_line)
          /\ last_top_level_node' = Len(nodes')
          /\ nodes'[Len(nodes')].node_type = "paragraph"
    /\ \A i \in 1..Len(nodes) :
          nodes'[i].parent_id = nodes[i].parent_id

\* C19: the parent_id of every sub-paragraph is the id of the nearest
\* preceding paragraph node, or null when no paragraph precedes it; the
\* parent changes only when a new top-level marker line is processed.
C19_NearestPrecedingParagraph == [](C19_ParentIsNearest) /\ [][C19_ParentChangeStep]_vars

\* a sub-paragraph opened after two paragraphs has the second as its parent
C19_Witness ==
    /\ ppc = "done"
    /\ Len(nodes) = 3
    /\ nodes[1].node_type = "paragraph"
    /\ nodes[2].node_type = "paragraph"
    /\ nodes[3].node_type = "sub-paragraph"
    /\ nodes[3].parent_id = nodes[2].node_id

\* the continuation lines from line i up to the next marker line, space-joined
RECURSIVE continuation_from(_)
continuation_from(i) ==
    IF i > Len(lines) \/ IsMarker(StrippedLines[i]) THEN <<>>
    ELSE (IF StrippedLines[i] = <<>> THEN <<>> ELSE <<" ">> \o StrippedLines[i])
         \o continuation_from(i + 1)

MarkerPositions == {i \in 1..Len(lines) : IsMarker(StrippedLines[i])}
KthMarkerPosition(k) ==
    CHOOSE p \in MarkerPositions : Cardinality({q \in MarkerPositions : q <= p}) = k

\* a step that reads a non-empty line matching neither marker
NonMarkerStep ==
    /\ ppc = "lines"
    /\ line_idx <= Len(lines)
    /\ line_idx' = line_idx + 1
    /\ current_line # <<>>
    /\ ~IsMarker(current_line)

\* what such a step changes: the text of the last node, by the line itself
C20_OnlyLastTextChanges ==
    NonMarkerStep =>
        /\ Len(nodes') = Len(nodes)
        /\ node_counter' = node_counter
        /\ last_top_level_node' = last_top_level_node
        /\ \A k \in 1..Len(nodes) :
              /\ nodes'[k].node_id = nodes[k].node_id
              /\ nodes'[k].node_type = nodes[k].node_type
              /\ nodes'[k].parent_id = nodes[k].parent_id
              /\ k < Len(nodes) => nodes'[k].text = nodes[k].text
        /\ nodes # <<>> =>
              nodes'[Len(nodes)].text = nodes[Len(nodes)].text \o <<" ">> \o current_line

\* no node exists before the first marker line is read, and the emitted text
\* of a node is its marker line with the continuation lines after it
C20_LinesBeforeFirstMarkerDropped ==
    /\ (ppc = "lines" /\ \A i \in 1..(line_idx - 1) : ~IsMarker(StrippedLines[i])) =>
          nodes = <<>>
    /\ (ppc = "done" /\ MarkerPositions # {}) =>
          /\ Len(nodes) = Cardinality(MarkerPositions)
          /\ \A k \in 1..Len(nodes) :
                nodes[k].text =
                    normalize(StrippedLines[KthMarkerPosition(k)]
                              \o continuation_from(KthMarkerPosition(k) + 1))

\* C20: processing a non-marker line changes only the text of the last node
\* (that line is appended) and leaves the node count, every node's id, type
\* and parent_id, the last-top-level reference and every earlier node's text
\* unchanged; non-marker lines before the first marker are appended to no
\* node, so when a marker exists their content appears in no node.
C20_NonMarkerLineFrame ==
    [](C20_LinesBeforeFirstMarkerDropped) /\ [][C20_OnlyLastTextChanges]_vars

\* a line dropped before the only marker line, and a line appended after it
C20_Witness ==
    /\ ppc = "done"
    /\ Len(lines) = 3
    /\ Len(nodes) = 1
    /\ ~IsMarker(StrippedLines[1]) /\ StrippedLines[1] # <<>>
    /\ ~IsMarker(StrippedLines[3]) /\ StrippedLines[3] # <<>>
    /\ nodes[1].text = normalize(StrippedLines[2] \o <<" ">> \o StrippedLines[3])

(***************************************************************************)
(* Properties of the file-name metadata.                                   *)
(***************************************************************************)
\* s holds part as a contiguous piece
IsSubstring(part, s) == occurrences(part, s) # {}

\* the file name the pattern is searched in: what follows the last "/"
FileName ==
    LET slashes == {i \in 1..Len(pdf_path) : pdf_path[i] = "/"}
    IN  IF slashes = {} THEN pdf_path ELSE SubSeq(pdf_path, Max(slashes) + 1, Len(pdf_path))

\* the three fields come from one match of the whole pattern: put back
\* between the pattern's literals they are a piece of the file name
FromOneMatch(md) ==
    /\ IsPrefix(NoticeLiteral, md.notice_id)
    /\ LET id == SubSeq(md.notice_id, Len(NoticeLiteral) + 1, Len(md.notice_id))
       IN  /\ run_of(id, 1, Len(id), WordChars)
           /\ run_of(md.publication_date, 1, Len(md.publication_date), DateChars)
           /\ run_of(md.effective_date, 1, Len(md.effective_date), DateChars)
           /\ IsSubstring(NoticeLiteral \o id \o DatedLiteral \o md.publication_date
                            \o EffectiveLiteral \o md.effective_date \o PdfLiteral,
                          FileName)

AllUnknown(md) ==
    /\ md.notice_id = Unknown
    /\ md.publication_date = Unknown
    /\ md.effective_date = Unknown

\* C18: filename metadata extraction never fails: when the file name matches
\* the expected pattern it yields 'MAS Notice <id>' and the two captured
\* dates, and when it does not match it yields the string 'Unknown' for all
\* three fields, never a mix of extracted and unknown values.
C18_MetadataAllOrNothing ==
    \* the extraction has a result for the path at hand
    /\ ppc = "start" =>
          LET md == extract_metadata(basename(pdf_path))
          IN  FromOneMatch(md) \/ AllUnknown(md)
    /\ ppc \in {"lines", "done"} =>
          /\ pattern_matches(FileName) # {} => FromOneMatch(doc_metadata)
          /\ pattern_matches(FileName) = {} => AllUnknown(doc_metadata)
          /\ doc_metadata.notice_id = Unknown =>
                doc_metadata.publication_date = Unknown /\ doc_metadata.effective_date = Unknown
          /\ pdf_path = TestPdfPath =>
                /\ doc_metadata.notice_id =
                    <<"M", "A", "S", " ", "N", "o", "t", "i", "c", "e", " ", "7", "5", "8">>
                /\ doc_metadata.publication_date =
                    <<"1", "8", " ", "D", "e", "c", " ", "2", "0", "2", "4">>
                /\ doc_metadata.effective_date =
                    <<"2", "6", " ", "D", "e", "c", " ", "2", "0", "2", "4">>

\* a file name with the notice part and the publication part but no
\* effective part has been read
C18_Witness ==
    /\ ppc = "done"
    /\ IsSubstring(NoticeLiteral, FileName)
    /\ IsSubstring(DatedLiteral, FileName)
    /\ ~IsSubstring(EffectiveLiteral, FileName)
    /\ AllUnknown(doc_metadata)

(***************************************************************************)
(* Properties of the enrichment.                                           *)
(***************************************************************************)
\* the positions in the log of the requests issued for the node with this id
RequestsOf(id) == {p \in 1..Len(requests) : requests[p].node = id}
\* the k-th of them
KthRequestOf(id, k) ==
    requests[CHOOSE p \in RequestsOf(id) : Cardinality({q \in RequestsOf(id) : q <= p}) = k]

\* the nodes the loop has passed
PassedNodes == 1..(node_idx - 1)
HasText(k) == data.content[k].text # <<>>
\* the nodes passed that have text and no request of which failed
SucceededNodes ==
    {k \in PassedNodes :
        /\ HasText(k)
        /\ \A p \in RequestsOf(data.content[k].node_id) : requests[p].ok}
KthSucceededNode(r) ==
    CHOOSE k \in SucceededNodes : Cardinality({j \in SucceededNodes : j <= k}) = r

\* C12: enrichment isolates per-node failures: for any list of nodes and any
\* pattern of generation and embedding failures, the enriched records written
\* are exactly the nodes with non-empty text for which every request
\* succeeded, in node order, one record per node with id equal to the node's
\* id; a node with empty text triggers no external request, and a failure on
\* one node never prevents later nodes from being processed.
C12_FailuresIsolated ==
    epc \in {"loop", "done"} =>
        /\ epc = "done" =>
              /\ PassedNodes = 1..Len(data.content)
              /\ enriched_file = [written |-> TRUE, nodes |-> enriched_nodes]
        /\ Len(enriched_nodes) = Cardinality(SucceededNodes)
        /\ \A r \in 1..Len(enriched_nodes) :
              /\ enriched_nodes[r].id = data.content[KthSucceededNode(r)].node_id
              /\ enriched_nodes[r].metadata.original_text = data.content[KthSucceededNode(r)].text
        /\ \A i, j \in 1..Len(enriched_nodes) :
              i # j => enriched_nodes[i].id # enriched_nodes[j].id
        /\ \A k \in PassedNodes :
              /\ ~HasText(k) => RequestsOf(data.content[k].node_id) = {}
              /\ HasText(k) => RequestsOf(data.content[k].node_id) # {}

\* the first node failed, the second has no text, the third is the one
\* record written
C12_Witness ==
    /\ epc = "done"
    /\ Len(data.content) = 3
    /\ \E p \in RequestsOf("node_1") : ~requests[p].ok
    /\ ~HasText(2)
    /\ Len(enriched_file.nodes) = 1
    /\ enriched_file.nodes[1].id = "node_3"

\* the kinds of request in a log, in order
KindsOf(id) ==
    [k \in 1..Cardinality(RequestsOf(id)) |->
        <<KthRequestOf(id, k).op, KthRequestOf(id, k).about>>]
Recorded(id) == \E r \in 1..Len(enriched_nodes) : enriched_nodes[r].id = id

\* C13 as stated: a node with text gets exactly one generation request, and
\* after it the three embedding requests.
C13_OneGenerationRequest ==
    \A k \in PassedNodes :
        Recorded(data.content[k].node_id) =>
            LET id == data.content[k].node_id
            IN  /\ Cardinality({p \in RequestsOf(id) : requests[p].op = "generate_content"}) = 1
                /\ Cardinality({p \in RequestsOf(id) : requests[p].op = "embed_content"}) = 3
                /\ \A p, q \in RequestsOf(id) :
                      (requests[p].op = "generate_content" /\ requests[q].op = "embed_content")
                          => p < q

\* the five requests for a node, in the order of the amended claim
TwoThenThree ==
    << <<"generate_content", "summary">>, <<"generate_content", "question">>,
       <<"embed_content", "text">>, <<"embed_content", "summary">>,
       <<"embed_content", "question">> >>

\* C13 amended: a node with text gets two generation requests, for the
\* summary and then for the hypothetical question, and only afterwards the
\* three embedding requests for original text, summary and question; each
\* request is issued only when every earlier request for the node succeeded.
C13_TwoGenerationsThenEmbeddings ==
    \A k \in PassedNodes :
        HasText(k) =>
            LET id == data.content[k].node_id
                n == Cardinality(RequestsOf(id))
            IN  /\ n \in 1..5
                /\ KindsOf(id) = SubSeq(TwoThenThree, 1, n)
                /\ \A j \in 1..(n - 1) : KthRequestOf(id, j).ok
                /\ KthRequestOf(id, n).ok => n = 5
                /\ Recorded(id) <=> (n = 5 /\ KthRequestOf(id, n).ok)
                \* the requests of a node are not interleaved with another node's
                /\ \A p, q \in RequestsOf(id) : \A m \in p..q : requests[m].node = id

\* two nodes enriched in full, ten requests
C13_Witness ==
    /\ epc = "done"
    /\ Len(enriched_file.nodes) = 2
    /\ Len(requests) = 10
    /\ \A p \in 1..Len(requests) : requests[p].ok

(***************************************************************************)
(* Properties of the index writer.                                         *)
(***************************************************************************)
\* the records of the file stored
FileRecords == enriched_file.nodes
\* the record of the file has a parent: the key is there and its value is not null
HasParentId(record) ==
    "parent_id" \in DOMAIN record.metadata /\ record.metadata["parent_id"] # None

\* C14: every metadata record the Index Writer passes to upsert has a
\* parent_id key whose value is a non-null string: a null or missing parent_id
\* is replaced by the sentinel string 'None', and a non-null parent_id is
\* passed through as that same id.
C14_ParentIdCoerced ==
    \A c \in 1..Len(upserts) :
        /\ Len(upserts[c].metadatas) = Len(FileRecords)
        /\ \A i \in 1..Len(FileRecords) :
              LET passed == upserts[c].metadatas[i]
                  record == FileRecords[i]
              IN  /\ "parent_id" \in DOMAIN passed
                  /\ passed["parent_id"] # None
                  /\ passed["parent_id"] \in STRING
                  /\ ~HasParentId(record) => passed["parent_id"] = "None"
                  /\ HasParentId(record) => passed["parent_id"] = record.metadata["parent_id"]
                  /\ \A key \in DOMAIN record.metadata \ {"parent_id"} :
                        passed[key] = record.metadata[key]

\* one upsert of three records: a null parent_id, a parent id, and a record
\* without the key
C14_Witness ==
    /\ Len(upserts) = 1
    /\ Len(FileRecords) = 3
    /\ "parent_id" \in DOMAIN FileRecords[1].metadata
    /\ FileRecords[1].metadata["parent_id"] = None
    /\ HasParentId(FileRecords[2])
    /\ "parent_id" \notin DOMAIN FileRecords[3].metadata
    /\ upserts[1].metadatas[1]["parent_id"] = "None"
    /\ upserts[1].metadatas[2]["parent_id"] = "node_1"
    /\ upserts[1].metadatas[3]["parent_id"] = "None"

\* after a store, the collection holds for every id of the file the record of
\* the latest upsert
C15_LatestRecordStored ==
    (stores >= 1 /\ FileRecords # <<>>) =>
        /\ upserts # <<>>
        /\ \A i \in 1..Len(FileRecords) :
              LET latest == upserts[Len(upserts)]
              IN  /\ latest.ids[i] = FileRecords[i].id
                  /\ FileRecords[i].id \in DOMAIN collection
                  /\ collection[FileRecords[i].id] =
                        [metadata |-> latest.metadatas[i],
                         text |-> FileRecords[i].metadata.original_text,
                         embedding |-> FileRecords[i].values.content]

\* storing the same file again changes neither the ids held nor their number
\* nor any record
C15_SecondStoreStep ==
    (stores >= 1 /\ stores' = stores + 1) =>
        /\ DOMAIN collection' = DOMAIN collection
        /\ Cardinality(DOMAIN collection') = Cardinality(DOMAIN collection)
        /\ \A id \in DOMAIN collection : collection'[id] = collection[id]
        /\ FileRecords # <<>> => upserts' = Append(upserts, upserts[Len(upserts)])

\* C15: re-ingesting the same list of enriched records (unchanged ids) is
\* idempotent: after the second upsert the index holds the same set of ids
\* and the same count as after the first, with each id mapped to the record
\* of the latest upsert and no id stored twice.
C15_ReingestIdempotent == [](C15_LatestRecordStored) /\ [][C15_SecondStoreStep]_vars

\* the same two records stored twice, over an index that held another record
\* for node_1
C15_Witness ==
    /\ stores = 2
    /\ Len(upserts) = 2
    /\ upserts[1] = upserts[2]
    /\ Len(FileRecords) = 2
    /\ FileRecords[1].id = "node_1"
    /\ DOMAIN collection = {"node_1", "node_2"}
    /\ collection["node_1"] # PriorIndex["node_1"]

\* a store of a file without records issues no upsert and changes no record
C16_EmptyStoreStep ==
    (stores' = stores + 1 /\ FileRecords = <<>>) =>
        /\ upserts' = upserts
        /\ collection' = collection

\* C16: when the list of enriched records is empty, the Index Writer issues
\* no upsert and leaves every record already in the index unchanged.
C16_EmptyListNoUpsert ==
    [](FileRecords = <<>> => upserts = <<>>) /\ [][C16_EmptyStoreStep]_vars

\* a file without records has been stored over an index that holds a record
C16_Witness ==
    /\ stores >= 1
    /\ FileRecords = <<>>
    /\ enriched_file.written
    /\ upserts = <<>>
    /\ collection = PriorIndex
    /\ "node_1" \in DOMAIN collection

(***************************************************************************)
(* Properties of the context expansion.                                    *)
(***************************************************************************)
\* the ids that are the parent_id of a hit: the key is there and its value
\* is not the sentinel
ParentIdsOfHits ==
    {search_results[i].metadata["parent_id"] :
        i \in {k \in 1..Len(search_results) :
                  /\ "parent_id" \in DOMAIN search_results[k].metadata
                  /\ search_results[k].metadata["parent_id"] # "None"}}
HitIds == {search_results[i].id : i \in 1..Len(search_results)}
ExpandedIds == {expanded_docs[k].id : k \in 1..Len(expanded_docs)}
GetCalls == {c \in 1..Len(calls) : calls[c].op = "collection.get"}

\* C21: context expansion is one level only: the expanded set is exactly the
\* original hits plus the index records whose id is the non-sentinel
\* parent_id of some original hit; a parent's own parent is never fetched, a
\* hit whose parent_id is the sentinel or absent adds nothing, and at most
\* one batch id-lookup is issued (none when no hit has a non-sentinel
\* parent_id).
C21_OneLevelExpansion ==
    rpc = "expanded" =>
        /\ ExpandedIds = HitIds \cup (ParentIdsOfHits \cap DOMAIN collection)
        /\ Len(expanded_docs) = Cardinality(ExpandedIds)
        /\ \A k \in 1..Len(expanded_docs) :
              /\ expanded_docs[k].id \in HitIds =>
                    \E i \in 1..Len(search_results) : expanded_docs[k] = search_results[i]
              /\ expanded_docs[k].id \notin HitIds =>
                    /\ expanded_docs[k].metadata = collection[expanded_docs[k].id].metadata
                    /\ expanded_docs[k].text = collection[expanded_docs[k].id].text
        /\ Cardinality(GetCalls) <= 1
        /\ ParentIdsOfHits = {} <=> GetCalls = {}
        /\ \A c \in GetCalls : calls[c].arg = ParentIdsOfHits

\* the one hit is node_3: its parent node_2 is fetched, node_2's parent
\* node_1 is not
C21_Witness ==
    /\ rpc = "expanded"
    /\ HitIds = {"node_3"}
    /\ ExpandedIds = {"node_3", "node_2"}
    /\ collection["node_2"].metadata.parent_id = "node_1"
    /\ "node_1" \in DOMAIN collection
    /\ Cardinality(GetCalls) = 1

(***************************************************************************)
(* Termination of a query.                                                 *)
(***************************************************************************)
QueryEnded == rpc \in {"done", "error"}

\* the statements still to run in a call of full_retrieval
StatementsLeft ==
    IF rpc = "rerank" THEN Len(documents) - doc_idx + 1
    ELSE IF rpc = "synthesize" THEN 1
    ELSE 0

\* at the end of a query whose search returned hits; before the end the
\* scoring loop has a candidate left, so that the call can move on
C22_RequestsAtEnd ==
    /\ rpc = "rerank" => doc_idx < Len(documents)
    /\ (QueryEnded /\ search_results # <<>>) =>
        /\ Len(documents) = Len(search_results)
        /\ Len(ScoreCalls) = Len(documents)
        /\ \A k \in 1..Len(documents) : ScoreCalls[k].arg.doc = documents[k]
        /\ Len(AnswerCalls) = 1
        /\ IsAnswerCall(calls[Len(calls)])
        /\ result \in {AnswerText, ServiceError}

\* one pass of the scoring loop issues one scoring request and moves on to
\* the next candidate, whatever the reply; a query that has ended does nothing
C22_NoRetryStep ==
    /\ rpc = "rerank" =>
          /\ doc_idx' = doc_idx + 1
          /\ Len(calls') = Len(calls) + 1
          /\ IsScoreCall(calls'[Len(calls')])
          /\ calls'[Len(calls')].arg.doc = documents[doc_idx']
    /\ rpc = "synthesize" => QueryEnded'
    /\ rpc \in {"rerank", "synthesize"} => StatementsLeft' = StatementsLeft - 1
    /\ ~QueryEnded

\* C22: every query terminates without retries: for a search returning
\* m >= 1 hits, reranking issues exactly one scoring request per candidate it
\* receives (also for candidates whose scoring fails), then exactly one
\* synthesis request is issued, and the query reaches a terminal state
\* (answer, no-results, or error).
C22_TerminatesWithoutRetries ==
    /\ [](C22_RequestsAtEnd)
    /\ [][C22_NoRetryStep]_vars
    /\ (rpc = "rerank") ~> QueryEnded

\* three hits, the scoring of the first raised and the second reply holds no
\* digit, and the query ended with an answer
C22_Witness ==
    /\ rpc = "done"
    /\ Len(search_results) = 3
    /\ Len(ScoreCalls) = 3
    /\ ScoreCalls[1].reply.raised
    /\ ~ScoreCalls[2].reply.raised /\ search_digits(ScoreCalls[2].reply.text) = <<>>
    /\ Len(AnswerCalls) = 1
    /\ result = AnswerText

(***************************************************************************)
(* The parent_id sentinel, from the enriched file to the context expansion.*)
(***************************************************************************)
\* the file has been stored into the collection
FileStored == stores >= 1 /\ FileRecords # <<>>

\* the parent ids context expansion gathers from the hit for a stored id
FetchSetOf(id) == parent_ids_to_fetch(<<hit_of(id)>>)

\* C23: the parent_id sentinel written at ingestion and the one tested at
\* query time agree: a node whose parent_id is null or missing in the
\* enriched file is stored with a parent_id that context expansion treats as
\* 'no parent' (it adds nothing to the parent fetch set), and a node with a
\* non-null parent_id is stored so that context expansion adds exactly that
\* id to the fetch set.
C23_SentinelAgrees ==
    FileStored =>
        /\ \A i \in 1..Len(FileRecords) :
              /\ FileRecords[i].id \in DOMAIN collection
              /\ ~HasParentId(FileRecords[i]) => FetchSetOf(FileRecords[i].id) = {}
              /\ HasParentId(FileRecords[i]) =>
                    FetchSetOf(FileRecords[i].id) = {FileRecords[i].metadata["parent_id"]}
        /\ parent_ids_to_fetch([i \in 1..Len(FileRecords) |-> hit_of(FileRecords[i].id)])
              = {FileRecords[i].metadata["parent_id"] :
                    i \in {k \in 1..Len(FileRecords) : HasParentId(FileRecords[k])}}

\* a stored file with a record whose parent_id is null, one without the key
\* and one whose parent_id is node_1
C23_Witness ==
    /\ FileStored
    /\ \E i, j, k \in 1..Len(FileRecords) :
          /\ "parent_id" \in DOMAIN FileRecords[i].metadata
          /\ FileRecords[i].metadata["parent_id"] = None
          /\ collection[FileRecords[i].id].metadata.parent_id = "None"
          /\ "parent_id" \notin DOMAIN FileRecords[j].metadata
          /\ collection[FileRecords[j].id].metadata.parent_id = "None"
          /\ HasParentId(FileRecords[k])
          /\ FetchSetOf(FileRecords[k].id) = {"node_1"}

(***************************************************************************)
(* Two documents in one collection.                                        *)
(***************************************************************************)
\* the document of the c-th upsert, told by its notice_id
DocumentOf(c) == upserts[c].metadatas[1].notice_id

\* the c-th upsert's record for id is what the collection holds under id
StillHeld(c, i) ==
    /\ upserts[c].ids[i] \in DOMAIN collection
    /\ collection[upserts[c].ids[i]] = upserted_record(upserts[c], i)

\* C24: records of different documents coexist in the index: after ingesting
\* document A and then a different document B into the same collection, every
\* record indexed for A is still present under its id with A's text and
\* metadata, and a parent_id stored with a record of B never resolves to a
\* record of A.
C24_DocumentsCoexist ==
    (Len(upserts) = 2 /\ DocumentOf(1) # DocumentOf(2)) =>
        /\ \A i \in 1..Len(upserts[1].ids) : StillHeld(1, i)
        /\ \A j \in 1..Len(upserts[2].ids) :
              LET parent_id == upserts[2].metadatas[j].parent_id
              IN  (parent_id # "None" /\ parent_id \in DOMAIN collection) =>
                      collection[parent_id].metadata.notice_id = DocumentOf(2)

(***************************************************************************)
(* The range of the reranking scores.                                      *)
(***************************************************************************)
\* the scoring of the k-th candidate failed: its score comes from the except block
FailedAt(k) == ScoringFailed(ScoreCalls[k].reply)

\* C25: every score used to order candidates in reranking lies in 0..10: 0
\* only for a candidate whose scoring failed, and a value in 1..10 otherwise,
\* whatever text the scoring response contains; consequently a candidate
\* whose scoring failed is never ranked ahead of a candidate that was scored
\* successfully.
C25_ScoresInRange ==
    rpc \in {"rerank", "synthesize", "done", "error"} =>
        /\ \A k \in 1..Len(ranked_docs) :
              /\ ranked_docs[k].score \in 0..10
              /\ ranked_docs[k].score = 0 <=> FailedAt(k)
        /\ RerankingReturned =>
              \A k, l \in 1..Len(documents) :
                  (FailedAt(k) /\ ~FailedAt(l)) => ~RankedAhead(documents[k], documents[l])

====
